---- MODULE Spec2Model ----
(***************************************************************************)
(* Model of src/ticket_speed_threshold.py: Otsu's brute-force threshold    *)
(* selection (otsu_method) and the 2 mph histogram binning                 *)
(* (quantize_to_bins).                                                     *)
(*                                                                         *)
(* Floating-point values are modelled as IEEE-like values of three kinds:  *)
(* "num" (an exact rational n/d, d > 0, in lowest terms), "inf" (np.inf)   *)
(* and "nan" (np.nan).  NaN propagates through arithmetic and every        *)
(* ordered comparison with NaN is false, as in Python / numpy.             *)
(***************************************************************************)
EXTENDS Integers, Sequences, FiniteSets, TLC

\* Largest dataset length explored.
MaxLen == 4

----------------------------------------------------------------------------
(* Floating-point values *)

Abs(x) == IF x < 0 THEN -x ELSE x

RECURSIVE GCD(_, _)
GCD(a, b) == IF b = 0 THEN a ELSE GCD(b, a % b)

\* The float n/d (d > 0), in lowest terms so that equal values are equal records.
Rat(n, d) ==
    LET g == GCD(Abs(n), d)
    IN  [kind |-> "num", n |-> n \div g, d |-> d \div g]

NaN  == [kind |-> "nan", n |-> 0, d |-> 1]
Inf  == [kind |-> "inf", n |-> 0, d |-> 1]
Zero == Rat(0, 1)
One  == Rat(1, 1)

IsNum(a) == a.kind = "num"

\* a + b on floats
Add(a, b) ==
    IF a.kind = "nan" \/ b.kind = "nan" THEN NaN
    ELSE IF a.kind = "inf" \/ b.kind = "inf" THEN Inf
    ELSE Rat(a.n * b.d + b.n * a.d, a.d * b.d)

\* a - b on floats (finite or NaN operands)
Sub(a, b) ==
    IF a.kind = "nan" \/ b.kind = "nan" THEN NaN
    ELSE IF a.kind = "inf" THEN Inf
    ELSE Rat(a.n * b.d - b.n * a.d, a.d * b.d)

\* a * b on floats; 0 * nan = nan, 0 * inf = nan
Mul(a, b) ==
    IF a.kind = "nan" \/ b.kind = "nan" THEN NaN
    ELSE IF a.kind = "inf" \/ b.kind = "inf"
         THEN IF a = Zero \/ b = Zero THEN NaN ELSE Inf
    ELSE Rat(a.n * b.n, a.d * b.d)

\* a < b on floats: false whenever an operand is NaN
Less(a, b) ==
    /\ a.kind # "nan"
    /\ b.kind # "nan"
    /\ a.kind = "num"
    /\ \/ b.kind = "inf"
       \/ a.n * b.d < b.n * a.d

\* math.floor of a finite float: an int
Floor(a) == a.n \div a.d

----------------------------------------------------------------------------
(* Inputs *)

\* Speeds (mph) the samples are drawn from.
Speeds ==
    { Rat(10, 1), Rat(11, 1), Rat(23, 2), Rat(12, 1), Rat(20, 1),
      Rat(42, 1), Rat(85, 2), Rat(50, 1), Rat(51, 1) }

IsSorted(s) == \A i \in 1..(Len(s) - 1) : ~Less(s[i + 1], s[i])

\* speed_data after fetch_data and speed_data.sort(): ascending, possibly empty
Datasets ==
    { s \in UNION { [1..n -> Speeds] : n \in 0..MaxLen } : IsSorted(s) }

----------------------------------------------------------------------------
(* Python / numpy helpers *)

Min2(a, b) == IF a < b THEN a ELSE b
Max2(a, b) == IF a > b THEN a ELSE b

\* s[start:stop] of a Python list (0-based, negative indices count from the end)
PySlice(s, start, stop) ==
    LET len     == Len(s)
        norm(k) == IF k < 0 THEN Max2(k + len, 0) ELSE Min2(k, len)
    IN  SubSeq(s, norm(start) + 1, norm(stop))

RECURSIVE SumSeq(_)
SumSeq(s) == IF s = <<>> THEN Zero ELSE Add(s[1], SumSeq(Tail(s)))

\* np.mean: nan for an empty input (0.0 / 0)
Mean(s) == IF Len(s) = 0 THEN NaN ELSE Mul(SumSeq(s), Rat(1, Len(s)))

\* np.var (ddof = 0): mean(|x - mean(x)|^2); nan for an empty input
Var(s) ==
    IF Len(s) = 0 THEN NaN
    ELSE LET m  == Mean(s)
             sq == [i \in 1..Len(s) |-> Mul(Sub(s[i], m), Sub(s[i], m))]
         IN  Mean(sq)


----------------------------------------------------------------------------
(* State *)

VARIABLES
    dataset,              \* all_thresholds / speed_data: the sorted input
    fn,                   \* the function being run: "none", "otsu", "quantize"
    pc,                   \* position in that function
    outcome,              \* "running", "returned", or the exception raised
    threshold_index,      \* otsu_method: loop variable
    all_variances,        \* otsu_method: mixed variance per split index
    best_mixed_variance,  \* otsu_method: running minimum
    best_threshold,       \* otsu_method: dataset value at the running minimum
    min_speed_range,      \* quantize_to_bins
    max_speed_range,      \* quantize_to_bins
    base_speed_range,     \* quantize_to_bins: loop variable of both while loops
    sample_index,         \* quantize_to_bins: position of the for loop (0-based)
    total_bins_dict,      \* quantize_to_bins: range key -> list of samples
    total_bins            \* quantize_to_bins: the bins, in order

otsu_vars == <<threshold_index, all_variances, best_mixed_variance, best_threshold>>

quantize_vars ==
    <<min_speed_range, max_speed_range, base_speed_range, sample_index,
      total_bins_dict, total_bins>>

vars == <<dataset, fn, pc, outcome, otsu_vars, quantize_vars>>

Init ==
    /\ dataset \in Datasets
    /\ fn = "none"
    /\ pc = "start"
    /\ outcome = "running"
    /\ threshold_index = 0
    /\ all_variances = <<>>
    /\ best_mixed_variance = Inf
    /\ best_threshold = NaN
    /\ min_speed_range = 0
    /\ max_speed_range = 0
    /\ base_speed_range = 0
    /\ sample_index = 0
    /\ total_bins_dict = <<>>
    /\ total_bins = <<>>

----------------------------------------------------------------------------
(* otsu_method *)

\* all_thresholds[0:threshold_index]
Under(d, i) == PySlice(d, 0, i)

\* all_thresholds[threshold_index:-1]
Over(d, i) == PySlice(d, i, -1)

\* float(len(slice) / len(all_thresholds)), true division
Weight(slice, d) == Rat(Len(slice), Len(d))

WtUnder(d, i) == Weight(Under(d, i), d)
WtOver(d, i)  == Weight(Over(d, i), d)

\* (wt_under * var_under) + (wt_over * var_over) at split index i
MixedVariance(d, i) ==
    Add(Mul(WtUnder(d, i), Var(Under(d, i))),
        Mul(WtOver(d, i), Var(Over(d, i))))

RecordVarianceSkipNaN(curve, mv) ==
    IF mv.kind = "nan" THEN curve ELSE Append(curve, mv)

\* all_variances.append(mixed_variance)
RecordVariance(curve, mv) == Append(curve, mv)

\* Entry of the function: the three initialisations before the loop.
OtsuEnter ==
    /\ pc = "start"
    /\ fn' = "otsu"
    /\ all_variances' = <<>>
    /\ best_mixed_variance' = Inf
    /\ best_threshold' = NaN
    /\ threshold_index' = 0
    /\ pc' = "otsu_loop"
    /\ UNCHANGED <<dataset, outcome, quantize_vars>>

\* One iteration of the for loop over range(0, len(all_thresholds)).
OtsuIter ==
    /\ pc = "otsu_loop"
    /\ threshold_index < Len(dataset)
    /\ LET mixed_variance == MixedVariance(dataset, threshold_index)
       IN  /\ all_variances' = RecordVariance(all_variances, mixed_variance)
           /\ IF Less(mixed_variance, best_mixed_variance)
              THEN /\ best_mixed_variance' = mixed_variance
                   /\ best_threshold' = dataset[threshold_index + 1]
              ELSE UNCHANGED <<best_mixed_variance, best_threshold>>
    /\ threshold_index' = threshold_index + 1
    /\ UNCHANGED <<dataset, fn, pc, outcome, quantize_vars>>

\* The loop is exhausted: return best_threshold, best_mixed_variance, all_variances.
OtsuReturn ==
    /\ pc = "otsu_loop"
    /\ threshold_index >= Len(dataset)
    /\ pc' = "done"
    /\ outcome' = "returned"
    /\ UNCHANGED <<dataset, fn, otsu_vars, quantize_vars>>

----------------------------------------------------------------------------
(* quantize_to_bins *)

\* range(b, b + 2) as a dictionary key: ranges are equal (and hash alike)
\* exactly when they hold the same integers.
RangeKey(b) == <<b, b + 1>>

\* math.floor(v) if math.floor(v) % 2 == 0 else math.floor(v - 1)
LowerRange(v) ==
    IF Floor(v) % 2 = 0 THEN Floor(v) ELSE Floor(Sub(v, One))

\* math.floor(v) if math.floor(v) % 2 == 0 else math.floor(v + 1)
UpperRange(v) ==
    IF Floor(v) % 2 = 0 THEN Floor(v) ELSE Floor(Add(v, One))

\* Entry: speed_data[0] raises IndexError on an empty list; otherwise the
\* two range ends and the loop variable are set.
QuantizeEnter ==
    /\ pc = "start"
    /\ fn' = "quantize"
    /\ total_bins_dict' = <<>>
    /\ total_bins' = <<>>
    /\ IF Len(dataset) = 0
       THEN /\ outcome' = "IndexError"
            /\ pc' = "done"
            /\ UNCHANGED <<min_speed_range, max_speed_range, base_speed_range>>
       ELSE /\ min_speed_range' = LowerRange(dataset[1])
            /\ max_speed_range' = UpperRange(dataset[Len(dataset)])
            /\ base_speed_range' = LowerRange(dataset[1])
            /\ pc' = "q_keys"
            /\ UNCHANGED outcome
    /\ UNCHANGED <<dataset, sample_index, otsu_vars>>

\* First while loop, one iteration: an empty list under a new range key.
QuantizeCreateKey ==
    /\ pc = "q_keys"
    /\ base_speed_range < max_speed_range
    /\ total_bins_dict' =
         [k \in DOMAIN total_bins_dict \cup {RangeKey(base_speed_range)} |->
            IF k = RangeKey(base_speed_range) THEN <<>> ELSE total_bins_dict[k]]
    /\ base_speed_range' = base_speed_range + 2
    /\ UNCHANGED <<dataset, fn, pc, outcome, min_speed_range, max_speed_range,
                   sample_index, total_bins, otsu_vars>>

\* First while loop ends; the for loop over the samples starts.
QuantizeKeysDone ==
    /\ pc = "q_keys"
    /\ base_speed_range >= max_speed_range
    /\ sample_index' = 0
    /\ pc' = "q_store"
    /\ UNCHANGED <<dataset, fn, outcome, min_speed_range, max_speed_range,
                   base_speed_range, total_bins_dict, total_bins, otsu_vars>>

\* For loop, one iteration: total_bins_dict.get(key).append(speed_value).
\* dict.get returns None for a missing key and None.append raises AttributeError.
QuantizeStore ==
    /\ pc = "q_store"
    /\ sample_index < Len(dataset)
    /\ LET speed_value == dataset[sample_index + 1]
           key         == RangeKey(LowerRange(speed_value))
       IN  IF key \in DOMAIN total_bins_dict
           THEN /\ total_bins_dict' =
                     [total_bins_dict EXCEPT ![key] = Append(@, speed_value)]
                /\ sample_index' = sample_index + 1
                /\ UNCHANGED <<pc, outcome>>
           ELSE /\ outcome' = "AttributeError"
                /\ pc' = "done"
                /\ UNCHANGED <<total_bins_dict, sample_index>>
    /\ UNCHANGED <<dataset, fn, min_speed_range, max_speed_range,
                   base_speed_range, total_bins, otsu_vars>>

\* For loop ends; base_speed_range is reset for the second while loop.
QuantizeStoreDone ==
    /\ pc = "q_store"
    /\ sample_index >= Len(dataset)
    /\ base_speed_range' = min_speed_range
    /\ pc' = "q_collect"
    /\ UNCHANGED <<dataset, fn, outcome, min_speed_range, max_speed_range,
                   sample_index, total_bins_dict, total_bins, otsu_vars>>

\* Second while loop, one iteration: the bin of the next range is appended.
QuantizeCollect ==
    /\ pc = "q_collect"
    /\ base_speed_range < max_speed_range
    /\ total_bins' = Append(total_bins, total_bins_dict[RangeKey(base_speed_range)])
    /\ base_speed_range' = base_speed_range + 2
    /\ UNCHANGED <<dataset, fn, pc, outcome, min_speed_range, max_speed_range,
                   sample_index, total_bins_dict, otsu_vars>>

\* return total_bins, min_speed_range
QuantizeReturn ==
    /\ pc = "q_collect"
    /\ base_speed_range >= max_speed_range
    /\ pc' = "done"
    /\ outcome' = "returned"
    /\ UNCHANGED <<dataset, fn, min_speed_range, max_speed_range,
                   base_speed_range, sample_index, total_bins_dict, total_bins,
                   otsu_vars>>

----------------------------------------------------------------------------

Next ==
    \/ OtsuEnter
    \/ OtsuIter
    \/ OtsuReturn
    \/ QuantizeEnter
    \/ QuantizeCreateKey
    \/ QuantizeKeysDone
    \/ QuantizeStore
    \/ QuantizeStoreDone
    \/ QuantizeCollect
    \/ QuantizeReturn

Spec == Init /\ [][Next]_vars

----------------------------------------------------------------------------
(* Vocabulary of the properties *)

OtsuDone == fn = "otsu" /\ pc = "done"

QuantizeDone == fn = "quantize" /\ pc = "done"

\* Population variance with the convention that an empty or one-element
\* slice has variance 0.
PopVar(s) == IF Len(s) <= 1 THEN Zero ELSE Var(s)

\* Mixed variance of the split that puts the first i elements below and
\* the remaining N - i elements (the maximum included) above.
FullMixed(d, i) ==
    Add(Mul(Rat(i, Len(d)), PopVar(SubSeq(d, 1, i))),
        Mul(Rat(Len(d) - i, Len(d)), PopVar(SubSeq(d, i + 1, Len(d)))))

\* d is a lower cluster d[1..k] followed by an upper cluster d[k+1..N],
\* each of width at most 2, separated by a gap of at least 30.
Clustered(d, k) ==
    /\ k \in 1..(Len(d) - 1)
    /\ ~Less(Rat(2, 1), Sub(d[k], d[1]))
    /\ ~Less(Rat(2, 1), Sub(d[Len(d)], d[k + 1]))
    /\ ~Less(Sub(d[k + 1], d[k]), Rat(30, 1))

Uniform(d) == \A i \in 1..Len(d) : d[i] = d[1]

\* Smallest (1-based) position of the curve that no entry is less than.
FirstMinimum(curve) ==
    CHOOSE k \in 1..Len(curve) :
        /\ \A j \in 1..Len(curve) : ~Less(curve[j], curve[k])
        /\ \A m \in 1..(k - 1) : \E j \in 1..Len(curve) : Less(curve[j], curve[m])

\* Smallest (1-based) position of the curve holding the value v.
FirstPosition(curve, v) ==
    CHOOSE k \in 1..Len(curve) :
        curve[k] = v /\ \A m \in 1..(k - 1) : curve[m] # v

RECURSIVE TotalLen(_)
TotalLen(bins) == IF bins = <<>> THEN 0 ELSE Len(bins[1]) + TotalLen(Tail(bins))

----------------------------------------------------------------------------
(* Properties *)

\* C1: for every non-empty sorted dataset, otsu_method returns a threshold
\* d[k] whose mixed variance (first k elements below, the remaining N-k above,
\* variance of an empty or one-element slice 0) is the minimum over all
\* split indices 0..N-1.
C1_ReturnsMinimizerOfFullMixed ==
    (OtsuDone /\ Len(dataset) > 0) =>
        \E k \in 0..(Len(dataset) - 1) :
            /\ best_threshold = dataset[k + 1]
            /\ \A i \in 0..(Len(dataset) - 1) :
                 ~Less(FullMixed(dataset, i), FullMixed(dataset, k))

\* C2: for any non-empty dataset (lengths 1 and 2 included) the returned
\* threshold is an element of the dataset, never a placeholder or NaN.
C2_ThresholdIsElement ==
    (OtsuDone /\ Len(dataset) > 0) =>
        \E k \in 1..Len(dataset) : best_threshold = dataset[k]

\* C3: for a lower cluster followed by an upper cluster (widths at most 2,
\* gap at least 30) otsu_method returns the first element of the upper
\* cluster, and the mixed variance recorded at that split is strictly less
\* than the one recorded at every other split index.
C3_ClusterBoundary ==
    OtsuDone =>
        \A k \in 1..(Len(dataset) - 1) :
            Clustered(dataset, k) =>
                /\ best_threshold = dataset[k + 1]
                /\ \A i \in 1..Len(dataset) :
                     i # k + 1 => Less(all_variances[k + 1], all_variances[i])

\* C4: otsu_method on an empty dataset ends in InvalidInputError and does
\* not return a normal result.
C4_EmptyRaises ==
    (OtsuDone /\ Len(dataset) = 0) => outcome = "InvalidInputError"

\* C5: ties are broken by first occurrence: the returned threshold is the
\* dataset value at the smallest index attaining the minimal mixed variance;
\* for a uniform dataset every recorded mixed variance is 0 and the chosen
\* split is index 0.
C5_FirstOccurrence ==
    (OtsuDone /\ Len(dataset) > 0) =>
        /\ best_threshold = dataset[FirstMinimum(all_variances)]
        /\ Uniform(dataset) =>
             /\ \A i \in 1..Len(all_variances) : all_variances[i] = Zero
             /\ FirstMinimum(all_variances) = 1
             /\ best_mixed_variance = all_variances[1]

\* C6: at the boundary split indices 0 and N-1 the variance used for a
\* partition of size 0 or 1 is exactly 0 and the mixed variance recorded
\* there is a defined number.
C6_BoundaryVarianceDefined ==
    (fn = "otsu" /\ Len(dataset) > 0) =>
        \A i \in {0, Len(dataset) - 1} :
            /\ Len(Under(dataset, i)) <= 1 => Var(Under(dataset, i)) = Zero
            /\ Len(Over(dataset, i)) <= 1 => Var(Over(dataset, i)) = Zero
            /\ i < Len(all_variances) => IsNum(all_variances[i + 1])

\* C7 (state part): after k iterations exactly k entries have been appended,
\* entry i is the mixed variance computed for split index i, and the
\* returned curve has exactly N entries.
C7_CurveShape ==
    fn = "otsu" =>
        /\ Len(all_variances) = threshold_index
        /\ pc = "done" => Len(all_variances) = Len(dataset)
        /\ \A i \in 0..(Len(all_variances) - 1) :
             all_variances[i + 1] = MixedVariance(dataset, i)

\* C7 (step part): an iteration appends exactly one entry and changes no
\* earlier entry.
C7_CurveStep ==
    (fn = "otsu" /\ all_variances' # all_variances) =>
        /\ Len(all_variances') = Len(all_variances) + 1
        /\ SubSeq(all_variances', 1, Len(all_variances)) = all_variances

\* C7: the variance curve has exactly N entries for an N-element dataset,
\* entry i being the mixed variance computed for split index i; after k
\* iterations exactly k entries have been appended and earlier entries are
\* never changed.
C7_CurveHasOneEntryPerIndex == [](C7_CurveShape) /\ [][C7_CurveStep]_vars

\* A complete run over four samples whose curve holds different numbers.
C7_Witness ==
    /\ OtsuDone
    /\ Len(dataset) = 4
    /\ Len(all_variances) = 4
    /\ IsNum(all_variances[2])
    /\ IsNum(all_variances[3])
    /\ all_variances[2] # all_variances[3]

\* C8: at every split index the under and over partitions together hold
\* every element exactly once (over = the remaining N-i elements), so the
\* weights are i/N and (N-i)/N and sum to 1.
C8_PartitionsCoverDataset ==
    (pc = "otsu_loop" /\ threshold_index < Len(dataset)) =>
        /\ Under(dataset, threshold_index) \o Over(dataset, threshold_index) = dataset
        /\ WtUnder(dataset, threshold_index) = Rat(threshold_index, Len(dataset))
        /\ WtOver(dataset, threshold_index)
             = Rat(Len(dataset) - threshold_index, Len(dataset))
        /\ Add(WtUnder(dataset, threshold_index), WtOver(dataset, threshold_index)) = One

\* C9: for every non-empty sorted dataset quantize_to_bins completes without
\* error; the bins are the consecutive 2-wide intervals starting at the even
\* min_speed_range, every sample lies in the bin whose interval contains it,
\* and the bins together hold as many samples as the dataset.
C9_EverySampleBinned ==
    (QuantizeDone /\ Len(dataset) > 0) =>
        /\ outcome = "returned"
        /\ min_speed_range % 2 = 0
        /\ TotalLen(total_bins) = Len(dataset)
        /\ \A j \in 1..Len(total_bins) :
             \A m \in 1..Len(total_bins[j]) :
                LET b == min_speed_range + 2 * (j - 1)
                    v == total_bins[j][m]
                IN  ~Less(v, Rat(b, 1)) /\ Less(v, Rat(b + 2, 1))

\* C10: at every point of the scan best_mixed_variance is the smallest mixed
\* variance recorded so far and best_threshold is the dataset value at the
\* first index where that value was recorded.
C10_RunningMinimum ==
    (fn = "otsu" /\ Len(all_variances) > 0) =>
        /\ \E j \in 1..Len(all_variances) : best_mixed_variance = all_variances[j]
        /\ \A i \in 1..Len(all_variances) : ~Less(all_variances[i], best_mixed_variance)
        /\ best_threshold = dataset[FirstPosition(all_variances, best_mixed_variance)]

============================================================================
